---- MODULE Spec2Model ----
(***************************************************************************)
(* The Bluetooth LE central sample (samples/bluetooth/central/src/main.c): *)
(* the advertisement-data parser (ad_parse, eir_found), the connection     *)
(* callbacks (connected, disconnected) and the GATT discovery callback     *)
(* (discover_func), together with the part of the host stack the handlers  *)
(* talk to: the scanner, the connection objects and the outstanding        *)
(* discovery requests.                                                     *)
(***************************************************************************)
EXTENDS Integers, Sequences, FiniteSets, TLC

\* ------------------------------------------------------------------ bounds

\* Connection objects the stack can hand out.
NumConn == 2
\* Longest advertisement buffer a scan report carries.
MaxLen == 5
\* Requests recorded for one session before the log stops the callbacks.
MaxReqs == 6

\* ------------------------------------------------------- program constants

NULL == 0
BT_UUID_HRS == 6157
BT_UUID_HRS_MEASUREMENT == 10807
BT_UUID_GATT_CCC == 10498
BT_EIR_UUID16_SOME == 2
BT_EIR_UUID16_ALL == 3
BT_GATT_CCC_NOTIFY == 1
\* errno value of "already subscribed"; err is its negation.
EALREADY == 120
\* Any other errno value: a rejected request.
EFAIL == 5
FIRST_HANDLE == 1
LAST_HANDLE == 65535

\* The three static struct bt_uuid objects; discover_params.uuid points at
\* one of them (or is NULL before the first connection).
hrs == [type |-> "BT_UUID_16", u16 |-> BT_UUID_HRS]
hrm == [type |-> "BT_UUID_16", u16 |-> BT_UUID_HRS_MEASUREMENT]
ccc == [type |-> "BT_UUID_16", u16 |-> BT_UUID_GATT_CCC]
NoUuid == [type |-> "NULL", u16 |-> 0]

\* ------------------------------------------------------------ input domains

Conns == 1..NumConn
\* Attribute handles a peer reports (16 bit).
Handles == {10, 20, 65535}
\* Byte values of advertisement data: terminator, lengths, the two UUID16
\* record types and the two bytes of BT_UUID_HRS in little-endian order.
Bytes == {0, 1, 2, 3, 13, 24}
U16(x) == x % 65536

VARIABLES
    pc,                \* main(): "boot", "running" (idle loop), "exited"
    scanning,          \* the stack's scanner is active
    default_conn,      \* static struct bt_conn *default_conn
    link,              \* the stack's connection objects
    pending,           \* connections with an accepted, unanswered discovery
    discover_params,   \* static struct bt_gatt_discover_params
    subscribe_params,  \* static struct bt_gatt_subscribe_params
    reqs,              \* GATT requests issued since the session began (or default_conn changed)
    out,               \* stack calls and error reports of the last handler
    ad,                \* advertisement buffer of the last scan report
    ad_tail,           \* the two bytes that follow the buffer in memory
    parse              \* what ad_parse did with it

vars == <<pc, scanning, default_conn, link, pending, discover_params,
          subscribe_params, reqs, out, ad, ad_tail, parse>>

gattVars == <<default_conn, link, pending, discover_params, subscribe_params, reqs>>
adVars == <<ad, ad_tail, parse>>

Call(f, r) == [f |-> f, r |-> r]

\* ----------------------------------------------------------------- AD parser

\* memcpy(&u16, &eir->data[i], 2) followed by sys_le16_to_cpu(u16): the first
\* byte is the low one.
sys_le16_to_cpu(b0, b1) == b0 + 256 * b1

NoParse == [reads |-> {}, visits |-> <<>>, malformed |-> 0, match |-> FALSE, end |-> "none"]

\* The for loop of eir_found: i = 0, 2, ... while i < eir->len, reading
\* eir->data[i] and eir->data[i+1], that is the bytes at offsets o+2+i, o+3+i.
RECURSIVE uuid16_loop(_, _, _, _)
uuid16_loop(mem, o, elen, i) ==
    IF i >= elen
      THEN [reads |-> {}, match |-> FALSE]
      ELSE LET rd == {o + 2 + i, o + 3 + i}
               u16 == sys_le16_to_cpu(mem[o + 2 + i + 1], mem[o + 3 + i + 1])
           IN IF u16 = BT_UUID_HRS
                THEN [reads |-> rd, match |-> TRUE]
                ELSE LET r == uuid16_loop(mem, o, elen, i + 2)
                     IN [reads |-> rd \cup r.reads, match |-> r.match]

\* A visitor that gives up the whole parse on a UUID list of odd length.
odd_list_aborts(hdr) ==
    [reads |-> hdr, match |-> FALSE, malformed |-> 1, cont |-> FALSE]

\* The UUID list is not a whole number of 16-bit values: eir_found reports
\* "AD malformed" and returns true, having read the record's header only.
odd_list(hdr) ==
    [reads |-> hdr, match |-> FALSE, malformed |-> 1, cont |-> TRUE]

\* eir_found on the record at offset o (0-based; mem is 1-based): what it
\* reads, whether it found BT_UUID_HRS, whether it reported "AD malformed",
\* and its return value (cont).
eir_found(mem, o) ==
    LET elen == mem[o + 1]
        type == mem[o + 2]
        hdr == {o, o + 1}
    IN IF type \in {BT_EIR_UUID16_SOME, BT_EIR_UUID16_ALL}
         THEN IF (elen - 1) % 2 # 0
                THEN odd_list(hdr)
                ELSE LET r == uuid16_loop(mem, o, elen, 0)
                     IN [reads |-> hdr \cup r.reads, match |-> r.match,
                         malformed |-> 0, cont |-> ~r.match]
         ELSE [reads |-> hdr, match |-> FALSE, malformed |-> 0, cont |-> TRUE]

\* The record view handed to the visitor: type, len and the len-1 data bytes.
Record(mem, o) ==
    [off |-> o, len |-> mem[o + 1], type |-> mem[o + 2],
     data |-> [k \in 1..(mem[o + 1] - 1) |-> mem[o + 2 + k]]]

\* A parser that returns from a truncated record without reporting it.
malformed_stop_silent(o) ==
    [NoParse EXCEPT !.reads = {o}, !.end = "terminator"]

\* The record does not fit into what is left of the buffer: ad_parse reports
\* "AD malformed" and returns, having read the length byte only.
malformed_stop(o) ==
    [NoParse EXCEPT !.reads = {o}, !.malformed = 1, !.end = "malformed"]

\* A parser that steps over the record's len bytes and forgets the length byte.
next_record_short(o, elen) == o + elen

\* p += sizeof(eir->len) + eir->len
next_record(o, elen) == o + 1 + elen

\* ad_parse from offset o with len bytes remaining.
RECURSIVE ad_parse(_, _, _)
ad_parse(mem, o, len) ==
    IF len <= 0
      THEN [NoParse EXCEPT !.end = "end"]
      ELSE LET elen == mem[o + 1]
           IN IF elen = 0
                THEN [NoParse EXCEPT !.reads = {o}, !.end = "terminator"]
                ELSE IF (elen + 1 > len) \/ (len < 2)
                  THEN malformed_stop(o)
                  ELSE LET v == eir_found(mem, o)
                           visit == [rec |-> Record(mem, o), reads |-> v.reads]
                       IN IF ~v.cont
                            THEN [reads |-> {o} \cup v.reads, visits |-> <<visit>>,
                                  malformed |-> v.malformed, match |-> v.match,
                                  end |-> "stopped"]
                            ELSE LET r == ad_parse(mem, next_record(o, elen), len - (1 + elen))
                                 IN [reads |-> {o} \cup v.reads \cup r.reads,
                                     visits |-> <<visit>> \o r.visits,
                                     malformed |-> v.malformed + r.malformed,
                                     match |-> r.match, end |-> r.end]

\* ------------------------------------------------------------------ the stack

\* bt_gatt_discover's return values: a request can only be accepted on a
\* connection that is up.
DiscoverResults(conn, lnk) ==
    IF conn # NULL /\ lnk[conn] = "up" THEN {0, -EFAIL} ELSE {-EFAIL}

\* bt_gatt_subscribe's return values on a connection that is up.
SubscribeResults == {0, -EALREADY, -EFAIL}

\* bt_start_scanning / bt_stop_scanning / bt_enable return values.
CallResults == {0, -EFAIL}

\* bt_conn_create_le: the first free connection object of the pool, or NULL.
FreeConns == {c \in Conns : link[c] = "free" /\ c \notin pending}
CreateResults == {NULL} \cup {c \in FreeConns : \A d \in FreeConns : c <= d}

\* A request handed to bt_gatt_discover, with the attribute handle attr whose
\* callback issued it (0: issued by connected) and the stack's answer err.
DiscoverReq(p, attr, err) ==
    [op |-> "discover", uuid |-> p.uuid, start_handle |-> p.start_handle,
     end_handle |-> p.end_handle, type |-> p.type, handle |-> 0, value_handle |-> 0,
     value |-> 0, attr |-> attr, err |-> err]

\* A request handed to bt_gatt_subscribe for the descriptor handle h.
SubscribeReq(h, s, err) ==
    [op |-> "subscribe", uuid |-> NoUuid, start_handle |-> 0,
     end_handle |-> 0, type |-> "none", handle |-> h, value_handle |-> s.value_handle,
     value |-> s.value, attr |-> h, err |-> err]

\* A result of a discovery on a connection that is no longer up is already
\* queued when the disconnection is reported: the dispatcher delivers it
\* before every later event.
Late == \E c \in pending : link[c] # "up"

\* ------------------------------------------------------------------- handlers

Init ==
    /\ pc = "boot"
    /\ scanning = FALSE
    /\ default_conn = NULL
    /\ link = [c \in Conns |-> "free"]
    /\ pending = {}
    /\ discover_params = [uuid |-> NoUuid, func |-> "NULL", start_handle |-> 0,
                          end_handle |-> 0, type |-> "none"]
    /\ subscribe_params = [func |-> "NULL", value_handle |-> 0, value |-> 0]
    /\ reqs = <<>>
    /\ out = <<>>
    /\ ad = <<>>
    /\ ad_tail = <<0, 0>>
    /\ parse = NoParse

\* main(): bt_enable, bt_conn_cb_register, bt_start_scanning, then the idle loop.
Main ==
    /\ pc = "boot"
    /\ \E e1 \in CallResults, e2 \in CallResults :
         IF e1 # 0
           THEN /\ pc' = "exited"
                /\ out' = <<Call("bt_enable", e1), Call("printk: Bluetooth init failed", e1)>>
                /\ UNCHANGED scanning
           ELSE IF e2 # 0
             THEN /\ pc' = "exited"
                  /\ out' = <<Call("bt_enable", e1), Call("bt_start_scanning", e2),
                              Call("printk: Scanning failed to start", e2)>>
                  /\ UNCHANGED scanning
             ELSE /\ pc' = "running"
                  /\ scanning' = TRUE
                  /\ out' = <<Call("bt_enable", e1), Call("bt_start_scanning", e2)>>
    /\ UNCHANGED <<gattVars, adVars>>

\* A connected that leaves the search window of the last session in place.
primary_params_stale(dp) ==
    [dp EXCEPT !.uuid = hrs, !.func = "discover_func", !.type = "BT_GATT_DISCOVER_PRIMARY"]

\* The discovery parameters connected sets up: all five fields are assigned.
primary_params(dp) ==
    [uuid |-> hrs, func |-> "discover_func", start_handle |-> FIRST_HANDLE,
     end_handle |-> LAST_HANDLE, type |-> "BT_GATT_DISCOVER_PRIMARY"]

\* A connected that starts discovery on every connection.
is_tracked_always(conn, dconn) == TRUE

\* if (conn == default_conn)
is_tracked(conn, dconn) == conn = dconn

\* connected(conn): what the handler does given the tracked connection and
\* the result err of its bt_gatt_discover call.
connected(conn, dconn, dp, err) ==
    IF is_tracked(conn, dconn)
      THEN LET p == primary_params(dp)
           IN [dp |-> p, issued |-> <<DiscoverReq(p, 0, err)>>,
               out |-> <<Call("printk: Connected", conn)>>
                       \o (IF err # 0 THEN <<Call("printk: Discover failed", err)>>
                                      ELSE <<>>)]
      ELSE [dp |-> dp, issued |-> <<>>, out |-> <<Call("printk: Connected", conn)>>]

\* The stack reports that connection c is established.
OnConnected(c) ==
    /\ pc = "running"
    /\ ~Late
    /\ link[c] = "connecting"
    /\ link' = [link EXCEPT ![c] = "up"]
    /\ \E err \in (IF c = default_conn THEN DiscoverResults(c, link') ELSE {0}) :
         LET r == connected(c, default_conn, discover_params, err)
         IN /\ discover_params' = r.dp
            /\ reqs' = IF r.issued # <<>> THEN r.issued ELSE reqs
            /\ pending' = IF r.issued # <<>> /\ r.issued[1].err = 0
                            THEN pending \cup {default_conn} ELSE pending
            /\ out' = r.out
    /\ UNCHANGED <<pc, scanning, default_conn, subscribe_params, adVars>>

\* A characteristic whose value is taken to sit at the declaration's handle.
value_handle_of_decl(h) == U16(h)

\* subscribe_params.value_handle = attr->handle + 1
value_handle_of(h) == U16(h + 1)

\* A subscribe that reports every nonzero result.
subscribe_failed_any(err) == err # 0

\* if (err && err != -EALREADY)
subscribe_failed(err) == err # 0 /\ err # -EALREADY

\* discover_func(attr, user_data) for an attribute with handle h: the new
\* parameter blocks, the request it issues (with the stack's answer err), what
\* it reports and what it returns to the discovery engine.
discover_func(h, dp, sp, err) ==
    LET seen == <<Call("printk: [ATTRIBUTE] handle", h)>>
    IN IF dp.uuid = hrs
      THEN LET p == [dp EXCEPT !.uuid = hrm, !.start_handle = U16(h + 1),
                               !.type = "BT_GATT_DISCOVER_CHARACTERISTIC"]
           IN [dp |-> p, sp |-> sp, req |-> DiscoverReq(p, h, err),
               out |-> seen \o (IF err # 0 THEN <<Call("printk: Discover failed", err)>>
                                           ELSE <<>>),
               ret |-> "BT_GATT_ITER_STOP"]
      ELSE IF dp.uuid = hrm
        THEN LET p == [dp EXCEPT !.uuid = ccc, !.start_handle = U16(h + 2),
                                 !.type = "BT_GATT_DISCOVER_DESCRIPTOR"]
                 s == [sp EXCEPT !.value_handle = value_handle_of(h)]
             IN [dp |-> p, sp |-> s, req |-> DiscoverReq(p, h, err),
                 out |-> seen \o (IF err # 0 THEN <<Call("printk: Discover failed", err)>>
                                             ELSE <<>>),
                 ret |-> "BT_GATT_ITER_STOP"]
        ELSE LET s == [sp EXCEPT !.func = "subscribe_func", !.value = BT_GATT_CCC_NOTIFY]
             IN [dp |-> dp, sp |-> s, req |-> SubscribeReq(h, s, err),
                 out |-> seen \o (IF subscribe_failed(err)
                                    THEN <<Call("printk: Subscribe failed", err)>>
                                    ELSE <<>>),
                 ret |-> "BT_GATT_ITER_STOP"]

\* The answers the stack can give to the request discover_func issues on the
\* tracked connection.
RequestResults(dconn, dp, lnk) ==
    IF dp.uuid \in {hrs, hrm}
      THEN DiscoverResults(dconn, lnk)
      ELSE IF dconn # NULL /\ lnk[dconn] = "up" THEN SubscribeResults ELSE {-EFAIL}

\* The discovery engine delivers one matching attribute, found inside the
\* search window, for the request outstanding on connection c.  The engine
\* goes on with that request only if the callback asks it to.
OnAttributeFound(c, h) ==
    /\ pc = "running"
    /\ c \in pending
    /\ Late => link[c] # "up"
    /\ discover_params.start_handle <= h /\ h <= discover_params.end_handle
    /\ Len(reqs) < MaxReqs
    /\ \E err \in RequestResults(default_conn, discover_params, link) :
         LET r == discover_func(h, discover_params, subscribe_params, err)
             rest == IF r.ret = "BT_GATT_ITER_STOP" THEN pending \ {c} ELSE pending
         IN /\ discover_params' = r.dp
            /\ subscribe_params' = r.sp
            /\ reqs' = Append(reqs, r.req)
            /\ pending' = IF r.req.op = "discover" /\ r.req.err = 0
                            THEN rest \cup {default_conn} ELSE rest
            /\ out' = r.out
    /\ UNCHANGED <<pc, scanning, default_conn, link, adVars>>

\* A disconnected that releases the connection and keeps the pointer.
disconnected_keeps_pointer(conn, dconn, err) ==
    IF dconn # conn
      THEN [default_conn |-> dconn, put |-> FALSE,
            out |-> <<Call("printk: Disconnected", conn)>>]
      ELSE [default_conn |-> dconn, put |-> TRUE,
            out |-> <<Call("printk: Disconnected", conn), Call("bt_conn_put", dconn),
                      Call("bt_start_scanning", err)>>
                    \o (IF err # 0 THEN <<Call("printk: Scanning failed to start", err)>>
                                   ELSE <<>>)]

\* A disconnected that does not look at which connection went.
disconnected_unchecked(conn, dconn, err) ==
    [default_conn |-> NULL, put |-> TRUE,
     out |-> <<Call("printk: Disconnected", conn), Call("bt_conn_put", dconn),
               Call("bt_start_scanning", err)>>
             \o (IF err # 0 THEN <<Call("printk: Scanning failed to start", err)>>
                            ELSE <<>>)]

\* disconnected(conn): the new default_conn, whether the reference was
\* released, and the calls made, given the result err of bt_start_scanning.
disconnected(conn, dconn, err) ==
    IF dconn # conn
      THEN [default_conn |-> dconn, put |-> FALSE,
            out |-> <<Call("printk: Disconnected", conn)>>]
      ELSE [default_conn |-> NULL, put |-> TRUE,
            out |-> <<Call("printk: Disconnected", conn), Call("bt_conn_put", dconn),
                      Call("bt_start_scanning", err)>>
                    \o (IF err # 0 THEN <<Call("printk: Scanning failed to start", err)>>
                                   ELSE <<>>)]

\* The stack reports that connection c is gone.  A result of c's outstanding
\* discovery may already be queued for delivery (drop = FALSE).
OnDisconnected(c) ==
    /\ pc = "running"
    /\ ~Late
    /\ link[c] = "up"
    /\ \E err \in (IF c = default_conn THEN CallResults ELSE {0}), drop \in BOOLEAN :
         LET r == disconnected(c, default_conn, err)
         IN /\ default_conn' = r.default_conn
            /\ link' = [link EXCEPT ![c] = IF r.put THEN "free" ELSE "closed"]
            /\ scanning' = IF r.put /\ err = 0 THEN TRUE ELSE scanning
            /\ reqs' = IF r.put THEN <<>> ELSE reqs
            /\ pending' = IF drop THEN pending \ {c} ELSE pending
            /\ out' = r.out
    /\ UNCHANGED <<pc, discover_params, subscribe_params, adVars>>

\* device_found: ad_parse with eir_found as visitor over the report's buffer
\* b (followed in memory by t); on a match eir_found stops the scanner (result
\* serr) and stores the result newc of bt_conn_create_le in default_conn.
device_found(b, t, dconn, serr, newc) ==
    LET p == ad_parse(b \o t, 0, Len(b))
    IN [parse |-> p,
        default_conn |-> IF p.match THEN newc ELSE dconn,
        out |-> [k \in 1..p.malformed |-> Call("printk: AD malformed", 0)]
                \o (IF p.match
                      THEN <<Call("bt_stop_scanning", serr)>>
                           \o (IF serr # 0
                                 THEN <<Call("printk: Stopping scanning failed", serr)>>
                                 ELSE <<>>)
                           \o <<Call("bt_conn_create_le", newc)>>
                      ELSE <<>>)]

\* The scanner reports an advertisement.
OnDeviceFound(b, t) ==
    /\ pc = "running"
    /\ ~Late
    /\ scanning
    /\ \E serr \in CallResults, newc \in CreateResults :
         LET r == device_found(b, t, default_conn, serr, newc)
         IN /\ parse' = r.parse
            /\ default_conn' = r.default_conn
            /\ out' = r.out
            /\ IF r.parse.match
                 THEN /\ scanning' = IF serr = 0 THEN FALSE ELSE scanning
                      /\ link' = IF newc # NULL THEN [link EXCEPT ![newc] = "connecting"]
                                                ELSE link
                      /\ reqs' = <<>>
                 ELSE UNCHANGED <<scanning, link, reqs>>
    /\ ad' = b
    /\ ad_tail' = t
    /\ UNCHANGED <<pc, pending, discover_params, subscribe_params>>

\* subscribe_func: a notification of the given length arrives for the
\* subscription the stack accepted.
OnNotification(length) ==
    /\ pc = "running"
    /\ ~Late
    /\ default_conn # NULL /\ link[default_conn] = "up"
    /\ \E i \in 1..Len(reqs) : reqs[i].op = "subscribe" /\ reqs[i].err = 0
    /\ out' = IF length # 0 THEN <<Call("printk: [NOTIFICATION]", length)>> ELSE <<>>
    /\ UNCHANGED <<pc, scanning, gattVars, adVars>>

\* The scan report of the full program model: an advertisement that lists
\* the heart-rate service, with zeroes behind it.
ScanReports == {<<3, 3, 13, 24>>}
ScanTails == {<<0, 0>>}

Next ==
    \/ Main
    \/ \E c \in Conns : OnConnected(c)
    \/ \E c \in Conns, h \in Handles : OnAttributeFound(c, h)
    \/ \E c \in Conns : OnDisconnected(c)
    \/ \E b \in ScanReports, t \in ScanTails : OnDeviceFound(b, t)
    \/ \E n \in {0, 2} : OnNotification(n)

Spec == Init /\ [][Next]_vars

\* The dispatcher delivers the result of an outstanding discovery.
Deliver == \E c \in Conns, h \in Handles : OnAttributeFound(c, h)

\* The program with callback delivery weakly fair: an attribute callback
\* that stays deliverable is delivered.
SpecLive == Init /\ [][Next]_vars /\ WF_vars(Deliver)

\* ------------------------------------------------ the parser on every buffer

\* Every buffer of at most MaxLen bytes, and what may lie behind it.
AdBuffers == UNION {[1..n -> Bytes] : n \in 0..MaxLen}
Tails == {<<0, 0>>, <<13, 24>>}

\* The program scanning, about to be handed the report (ad, ad_tail).
InitAD ==
    /\ pc = "running"
    /\ scanning = TRUE
    /\ default_conn = NULL
    /\ link = [c \in Conns |-> "free"]
    /\ pending = {}
    /\ discover_params = [uuid |-> NoUuid, func |-> "NULL", start_handle |-> 0,
                          end_handle |-> 0, type |-> "none"]
    /\ subscribe_params = [func |-> "NULL", value_handle |-> 0, value |-> 0]
    /\ reqs = <<>>
    /\ out = <<>>
    /\ ad \in AdBuffers
    /\ ad_tail \in Tails
    /\ parse = NoParse

NextAD == OnDeviceFound(ad, ad_tail)

SpecAD == InitAD /\ [][NextAD]_vars

\* ------------------------------------------- the parser on encoded records

\* Records an advertiser puts into one report.
MaxRecs == 2

\* Advertisement records {type, data}: a flags-like record, UUID16 lists of
\* odd length, with and without the heart-rate service, an empty UUID16 list
\* and a record of another type that holds the service's two bytes.
RecordPool ==
    {[type |-> 1, data |-> <<>>],
     [type |-> BT_EIR_UUID16_ALL, data |-> <<13>>],
     [type |-> BT_EIR_UUID16_ALL, data |-> <<13, 24>>],
     [type |-> BT_EIR_UUID16_SOME, data |-> <<24, 13>>],
     [type |-> BT_EIR_UUID16_ALL, data |-> <<>>],
     [type |-> 1, data |-> <<13, 24>>]}

RecordSeqs == UNION {[1..n -> RecordPool] : n \in 0..MaxRecs}

\* What may follow the records: nothing, or a terminator and unused bytes.
Trailers == {<<>>, <<0>>, <<0, 13, 24>>}

\* The wire form of a sequence of records: length (type + data), type, data.
RECURSIVE Encode(_)
Encode(recs) ==
    IF recs = <<>>
      THEN <<>>
      ELSE <<Len(recs[1].data) + 1, recs[1].type>> \o recs[1].data \o Encode(Tail(recs))

\* The program scanning, about to be handed a report of encoded records.
InitRec ==
    /\ pc = "running"
    /\ scanning = TRUE
    /\ default_conn = NULL
    /\ link = [c \in Conns |-> "free"]
    /\ pending = {}
    /\ discover_params = [uuid |-> NoUuid, func |-> "NULL", start_handle |-> 0,
                          end_handle |-> 0, type |-> "none"]
    /\ subscribe_params = [func |-> "NULL", value_handle |-> 0, value |-> 0]
    /\ reqs = <<>>
    /\ out = <<>>
    /\ ad \in {Encode(recs) \o tr : recs \in RecordSeqs, tr \in Trailers}
    /\ ad_tail \in Tails
    /\ parse = NoParse

NextRec == OnDeviceFound(ad, ad_tail)

SpecRec == InitRec /\ [][NextRec]_vars

\* -------------------------------------------------------- the session's stage

\* A session is live from connected(default_conn) until default_conn changes.
SessionLive == default_conn # NULL /\ link[default_conn] = "up"

\* The stage of the discovery session.  The program keeps no stage variable:
\* discover_func dispatches on discover_params.uuid, and the last stage is
\* left by issuing the subscribe request.
Stage ==
    IF ~SessionLive THEN "Idle"
    ELSE IF discover_params.uuid = hrs THEN "DiscoverPrimaryService"
    ELSE IF discover_params.uuid = hrm THEN "DiscoverCharacteristic"
    ELSE IF reqs # <<>> /\ reqs[Len(reqs)].op = "subscribe" THEN "Subscribed"
    ELSE "DiscoverDescriptor"

Reported(o, msg) == \E i \in 1..Len(o) : o[i].f = msg
AllAccepted == \A i \in 1..Len(reqs) : reqs[i].err = 0

\* ---------------------------------------------------------------------- claims

\* C1: a full parse of a buffer (ad_parse driving eir_found, the UUID16 loop
\* included) reads no byte at an offset >= len(b), and while visiting a
\* record reads no byte beyond that record's 1+length bytes.
C1_NoReadPastBuffer ==
    /\ \A off \in parse.reads : off < Len(ad)
    /\ \A i \in 1..Len(parse.visits) :
         \A off \in parse.visits[i].reads :
            /\ parse.visits[i].rec.off <= off
            /\ off <= parse.visits[i].rec.off + parse.visits[i].rec.len

\* C2: from on_connected with every request accepted, the attributes h1, h2,
\* h3 make the session issue, in this order, discover PrimaryService
\* [0x0001, 0xFFFF], discover Characteristic from h1+1, discover Descriptor
\* from h2+2 and subscribe on h3 with value_handle h2+1 and notify enabled;
\* end_handle is 0xFFFF in the three discoveries and the fourth request, not
\* an earlier one, leaves the session in Subscribed.
C2_FourRequestsInOrder ==
    (SessionLive /\ AllAccepted) =>
        /\ Len(reqs) >= 1
        /\ reqs[1] = [op |-> "discover", uuid |-> hrs, start_handle |-> 1,
                      end_handle |-> 65535, type |-> "BT_GATT_DISCOVER_PRIMARY",
                      handle |-> 0, value_handle |-> 0, value |-> 0, attr |-> 0, err |-> 0]
        /\ Len(reqs) >= 2 =>
             /\ reqs[2].op = "discover" /\ reqs[2].uuid = hrm
             /\ reqs[2].type = "BT_GATT_DISCOVER_CHARACTERISTIC"
             /\ reqs[2].start_handle = U16(reqs[2].attr + 1)
             /\ reqs[2].end_handle = 65535
        /\ Len(reqs) >= 3 =>
             /\ reqs[3].op = "discover" /\ reqs[3].uuid = ccc
             /\ reqs[3].type = "BT_GATT_DISCOVER_DESCRIPTOR"
             /\ reqs[3].start_handle = U16(reqs[3].attr + 2)
             /\ reqs[3].end_handle = 65535
        /\ Len(reqs) >= 4 =>
             /\ reqs[4].op = "subscribe" /\ reqs[4].handle = reqs[4].attr
             /\ reqs[4].value_handle = U16(reqs[3].attr + 1)
             /\ reqs[4].value = BT_GATT_CCC_NOTIFY
        /\ (Stage = "Subscribed") <=> (Len(reqs) >= 4)

\* C2's case: the attributes 10, 20 and 65535 were delivered, all four
\* requests accepted.
C2_Witness ==
    /\ SessionLive /\ AllAccepted /\ Len(reqs) = 4 /\ Stage = "Subscribed"
    /\ reqs[2].attr = 10 /\ reqs[3].attr = 20 /\ reqs[4].attr = 65535
    /\ reqs[2].start_handle = 11 /\ reqs[3].start_handle = 22
    /\ reqs[4].value_handle = 21

\* The session right after on_connected had its first request rejected.
InitialRejected == SessionLive /\ Len(reqs) = 1 /\ reqs[1].err # 0

\* C3: when on_connected's primary-service discovery request is rejected the
\* session is left in Idle, and no further discover or subscribe request is
\* issued for that connection.
C3_RejectedLeavesIdle ==
    [][/\ InitialRejected' => Stage' = "Idle"
       /\ (InitialRejected /\ default_conn' = default_conn) => reqs' = reqs]_vars

StageRank(st) ==
    CASE st = "Idle" -> 0
      [] st = "DiscoverPrimaryService" -> 1
      [] st = "DiscoverCharacteristic" -> 2
      [] st = "DiscoverDescriptor" -> 3
      [] st = "Subscribed" -> 4

\* C4: Subscribed is terminal: until the connection goes, no further discover
\* or subscribe request is issued and the stage stays Subscribed; and every
\* forward transition goes one stage on and issues exactly one request.
C4_SubscribedTerminal ==
    [][/\ (Stage = "Subscribed" /\ default_conn' = default_conn) =>
             (reqs' = reqs /\ Stage' = "Subscribed")
       /\ (Stage # "Idle" /\ default_conn' = default_conn /\ Stage' # Stage) =>
             /\ StageRank(Stage') = StageRank(Stage) + 1
             /\ Len(reqs') = Len(reqs) + 1]_vars

\* The step in which disconnected runs for the tracked connection.
TrackedDisconnects ==
    default_conn # NULL /\ link[default_conn] = "up" /\ link'[default_conn] # "up"

\* C5: on_disconnected for the tracked connection, in any stage, discards the
\* session: the stage is Idle, no connection is tracked, the reference is
\* released and a request to start scanning has been issued.
C5_DisconnectDiscards ==
    [][TrackedDisconnects =>
          /\ default_conn' = NULL
          /\ Stage' = "Idle"
          /\ reqs' = <<>>
          /\ Reported(out', "bt_conn_put")
          /\ Reported(out', "bt_start_scanning")]_vars

\* C5's case: the tracked connection went while the session was looking for
\* the characteristic.
C5_Witness ==
    /\ default_conn = NULL
    /\ Reported(out, "bt_conn_put") /\ Reported(out, "bt_start_scanning")
    /\ discover_params.uuid = hrm
    /\ Stage = "Idle"

\* C6: an attribute callback delivered after the tracked connection went,
\* for the request that was in flight, issues no discover or subscribe
\* request and does not advance the session.
C6_DisconnectCancels ==
    [][(Late /\ default_conn = NULL) =>
          /\ reqs' = reqs
          /\ discover_params' = discover_params
          /\ subscribe_params' = subscribe_params]_vars

\* The step in which connected runs for the tracked connection.
TrackedConnects ==
    default_conn # NULL /\ link[default_conn] = "connecting" /\ link'[default_conn] = "up"

\* C7: whatever stage the last session was disconnected in, on_connected for
\* the newly tracked connection starts at DiscoverPrimaryService with the
\* service UUID and the window [0x0001, 0xFFFF] and issues exactly one
\* primary-service discovery request; nothing is taken over from before.
C7_ConnectRestarts ==
    [][TrackedConnects =>
          /\ Stage' = "DiscoverPrimaryService"
          /\ discover_params' = [uuid |-> hrs, func |-> "discover_func",
                                 start_handle |-> 1, end_handle |-> 65535,
                                 type |-> "BT_GATT_DISCOVER_PRIMARY"]
          /\ Len(reqs') = 1
          /\ reqs'[1].op = "discover" /\ reqs'[1].uuid = hrs
          /\ reqs'[1].type = "BT_GATT_DISCOVER_PRIMARY"
          /\ reqs'[1].start_handle = 1 /\ reqs'[1].end_handle = 65535]_vars

\* C7's case: a new session has just begun after one that had found its
\* characteristic (value_handle is left over from it).
C7_Witness ==
    /\ Stage = "DiscoverPrimaryService" /\ Len(reqs) = 1
    /\ Reported(out, "printk: Connected")
    /\ subscribe_params.value_handle = 21

\* C8: in DiscoverDescriptor the subscribe request is issued once and the
\* session goes to Subscribed whatever the answer; "already subscribed" is
\* reported no more than an accepted request, any other rejection is.
C8_AlreadySubscribedIsSuccess ==
    [][(Stage = "DiscoverDescriptor" /\ default_conn' = default_conn /\ reqs' # reqs) =>
          /\ Len(reqs') = Len(reqs) + 1
          /\ reqs'[Len(reqs')].op = "subscribe"
          /\ Stage' = "Subscribed"
          /\ Reported(out', "printk: Subscribe failed")
               <=> (reqs'[Len(reqs')].err \notin {0, -EALREADY})
          /\ ~Reported(out', "printk: Discover failed")]_vars

\* C8's case: the stack answered "already subscribed".
C8_Witness ==
    /\ Stage = "Subscribed"
    /\ reqs[Len(reqs)].err = -EALREADY
    /\ Reported(out, "printk: [ATTRIBUTE] handle")
    /\ ~Reported(out, "printk: Subscribe failed")

\* The session right after a follow-up discovery request was rejected.
Parked ==
    /\ Stage \in {"DiscoverCharacteristic", "DiscoverDescriptor"}
    /\ reqs[Len(reqs)].op = "discover"
    /\ reqs[Len(reqs)].attr # 0
    /\ reqs[Len(reqs)].err # 0

\* C9: when the follow-up discovery request of DiscoverPrimaryService or
\* DiscoverCharacteristic is rejected, the session stays in the new stage
\* with the updated target UUID, start_handle and value_handle, and no
\* further request is issued until the connection disconnects.
C9_RejectedFollowUpParks ==
    [][(Parked /\ default_conn' = default_conn) =>
          /\ reqs' = reqs
          /\ discover_params' = discover_params
          /\ subscribe_params' = subscribe_params]_vars

\* C10: on_connected for a connection other than the tracked one issues no
\* request and leaves the tracked connection, the stage, the target UUID, the
\* search window and value_handle as they were.
C10_OtherConnectIgnored ==
    [][\A c \in Conns :
          (link[c] = "connecting" /\ link'[c] = "up" /\ c # default_conn) =>
             /\ reqs' = reqs
             /\ pending' = pending
             /\ default_conn' = default_conn
             /\ Stage' = Stage
             /\ discover_params' = discover_params
             /\ subscribe_params' = subscribe_params]_vars

\* C10's case: another connection came up while a session was looking for
\* the characteristic.
C10_Witness ==
    /\ Stage = "DiscoverCharacteristic"
    /\ \E c \in Conns : c # default_conn /\ out = <<Call("printk: Connected", c)>>

\* The record lists BT_UUID_HRS among the 16-bit values of its own data bytes.
InsideMatch(rec) ==
    /\ rec.type \in {BT_EIR_UUID16_SOME, BT_EIR_UUID16_ALL}
    /\ (rec.len - 1) % 2 = 0
    /\ \E k \in 1..(rec.len - 1) :
         /\ k % 2 = 1
         /\ k + 1 <= rec.len - 1
         /\ sys_le16_to_cpu(rec.data[k], rec.data[k + 1]) = BT_UUID_HRS

\* The i-th visit is the one that returned false.
VisitMatched(i) == i = Len(parse.visits) /\ parse.end = "stopped"

\* C11: the UUID16 visitor reports a match (stops scanning, starts a
\* connection, ends the parse) exactly when the visited record is a
\* UUID16_SOME/UUID16_ALL record of even data length and one of the 16-bit
\* little-endian values inside its own data bytes is the target UUID; bytes
\* outside the record's data never cause a match.
C11_MatchInsideRecord ==
    /\ \A i \in 1..Len(parse.visits) :
         VisitMatched(i) <=> InsideMatch(parse.visits[i].rec)
    /\ parse.match <=> (parse.visits # <<>> /\ VisitMatched(Len(parse.visits)))
    /\ parse.match <=> (Reported(out, "bt_stop_scanning") /\ Reported(out, "bt_conn_create_le"))

\* Where the parse stood when it ended without a match, and what was left.
StopOffset ==
    IF parse.visits = <<>>
      THEN 0
      ELSE parse.visits[Len(parse.visits)].rec.off + 1
           + parse.visits[Len(parse.visits)].rec.len
Remaining == Len(ad) - StopOffset

\* Every visit was of a complete record, each one right behind the other.
VisitsStand ==
    \A i \in 1..Len(parse.visits) :
       /\ parse.visits[i].rec.len >= 1
       /\ parse.visits[i].rec.off + 1 + parse.visits[i].rec.len <= Len(ad)
       /\ parse.visits[i].rec.off =
            (IF i = 1 THEN 0
                      ELSE parse.visits[i - 1].rec.off + 1 + parse.visits[i - 1].rec.len)

\* C12 as stated: whenever the record at the current offset declares a
\* length L with 1 + L > remaining, or fewer than 2 bytes remain, the parser
\* signals malformed input, visits neither that record nor anything after it,
\* and the visits already made stand.
C12_TruncatedOrShortIsMalformed ==
    /\ VisitsStand
    /\ (/\ parse.end \notin {"none", "stopped"}
        /\ Remaining > 0
        /\ (1 + ad[StopOffset + 1] > Remaining \/ Remaining < 2))
         => (parse.end = "malformed" /\ Reported(out, "printk: AD malformed"))

\* C12, amended: the same for a record that declares a non-zero length L with
\* 1 + L > remaining; a zero length byte ends the parse as a terminator
\* without a malformed signal, also when it is the last byte of the buffer.
C12_TruncatedIsMalformed ==
    /\ VisitsStand
    /\ (parse.end \notin {"none", "stopped"} /\ Remaining > 0) =>
         /\ (ad[StopOffset + 1] # 0 /\ 1 + ad[StopOffset + 1] > Remaining)
              => (parse.end = "malformed" /\ Reported(out, "printk: AD malformed"))
         /\ ad[StopOffset + 1] = 0 => parse.end = "terminator"

\* C12's case: the second record claims more bytes than are left; the first
\* record's visit stands.
C12_Witness ==
    /\ parse.end = "malformed"
    /\ Len(parse.visits) = 1
    /\ Remaining = 2
    /\ ad[StopOffset + 1] = 3

\* The i-th visit as a record {type, data}.
VisitedRecord(i) ==
    [type |-> parse.visits[i].rec.type, data |-> parse.visits[i].rec.data]

\* C13: for every sequence of well-formed records encoded into the buffer,
\* the parse visits the records once each, in order, with type, length and
\* data as encoded, up to the first of: a visit that returns false, a zero
\* length byte, the end of the buffer; a buffer whose first byte is 0 gets
\* no visit.
C13_RoundTrip ==
    parse.end # "none" =>
       /\ \A recs \in RecordSeqs, tr \in Trailers :
            ad = Encode(recs) \o tr =>
               /\ Len(parse.visits) <= Len(recs)
               /\ \A i \in 1..Len(parse.visits) :
                    /\ VisitedRecord(i) = recs[i]
                    /\ parse.visits[i].rec.len = Len(recs[i].data) + 1
               /\ parse.end \in {"stopped", "end", "terminator"}
               /\ parse.end = "stopped" => parse.visits # <<>>
               /\ parse.end = "end" => (Len(parse.visits) = Len(recs) /\ tr = <<>>)
               /\ parse.end = "terminator" => (Len(parse.visits) = Len(recs) /\ tr # <<>>)
       /\ (ad # <<>> /\ ad[1] = 0) =>
            (parse.visits = <<>> /\ parse.end = "terminator" /\ parse.malformed = 0)

\* C13's case: two records and a terminator with unused bytes behind it.
C13_Witness ==
    /\ Len(parse.visits) = 2
    /\ parse.end = "terminator"
    /\ VisitedRecord(1) = [type |-> 1, data |-> <<13, 24>>]
    /\ VisitedRecord(2) = [type |-> BT_EIR_UUID16_SOME, data |-> <<24, 13>>]
    /\ Len(ad) = 11

\* A UUID16 record whose data is not a whole number of 16-bit values.
OddList(rec) ==
    /\ rec.type \in {BT_EIR_UUID16_SOME, BT_EIR_UUID16_ALL}
    /\ (rec.len - 1) % 2 # 0

\* A record {type, data} as the visitor sees it.
AsRecord(r) == [off |-> 0, len |-> Len(r.data) + 1, type |-> r.type, data |-> r.data]

\* C14: a UUID16_SOME/UUID16_ALL record of odd data length is skipped: none
\* of its data is compared, the visitor returns continue, the records behind
\* it are still visited and a matching UUID in a later well-formed record is
\* still found.
C14_OddListSkipped ==
    /\ \A i \in 1..Len(parse.visits) :
         OddList(parse.visits[i].rec) =>
            /\ parse.visits[i].reads \subseteq
                 {parse.visits[i].rec.off, parse.visits[i].rec.off + 1}
            /\ ~VisitMatched(i)
            /\ Reported(out, "printk: AD malformed")
    /\ parse.end # "none" =>
         \A recs \in RecordSeqs, tr \in Trailers :
            ad = Encode(recs) \o tr =>
               \A i \in 1..Len(recs) :
                  (i <= Len(parse.visits) /\ OddList(AsRecord(recs[i]))) =>
                     /\ i < Len(recs) => Len(parse.visits) >= i + 1
                     /\ (\E j \in (i + 1)..Len(recs) : InsideMatch(AsRecord(recs[j])))
                          => parse.match

\* C14's case: an odd UUID16 list followed by a record that lists the
\* heart-rate service.
C14_Witness ==
    /\ Len(parse.visits) = 2
    /\ OddList(parse.visits[1].rec)
    /\ InsideMatch(parse.visits[2].rec)
    /\ parse.match

\* The request discover_func has just issued for a consumed attribute.
FollowUp(r) == r.op = "discover" /\ r.attr # 0

\* C15: each forward transition leaves start_handle strictly above the
\* consumed attribute's handle and at most end_handle, computed as handle+1
\* or handle+2 modulo 2^16; start_handle never decreases within a session
\* and never becomes 0, also for the handles 0xFFFE and 0xFFFF.
C15_WindowAdvances ==
    [][(Len(reqs') = Len(reqs) + 1 /\ FollowUp(reqs'[Len(reqs')])) =>
          /\ discover_params'.start_handle = reqs'[Len(reqs')].start_handle
          /\ discover_params'.start_handle
               \in {U16(reqs'[Len(reqs')].attr + 1), U16(reqs'[Len(reqs')].attr + 2)}
          /\ discover_params'.start_handle > reqs'[Len(reqs')].attr
          /\ discover_params'.start_handle <= discover_params'.end_handle
          /\ discover_params'.start_handle >= discover_params.start_handle
          /\ discover_params'.start_handle # 0]_vars

\* C16: a connection is created and recorded as the tracked one only when
\* none is tracked; an advertisement match handled while a connection is
\* tracked never replaces it.
C16_TrackedSingular ==
    [][/\ Reported(out', "bt_conn_create_le") => default_conn = NULL
       /\ default_conn # NULL => default_conn' \in {default_conn, NULL}]_vars

\* C17: once the program runs, either a connection is tracked or scanning
\* is active, whatever the scan reports, connection-creation results,
\* connection events and start/stop-scanning results were.
C17_TrackedOrScanning ==
    pc = "running" => (default_conn # NULL \/ scanning)

\* A step of connected, discover_func or disconnected.
HandlerStep ==
    \/ \E c \in Conns : link[c] = "connecting" /\ link'[c] = "up"
    \/ \E c \in Conns : link[c] = "up" /\ link'[c] # "up"
    \/ Len(reqs') = Len(reqs) + 1 /\ Reported(out', "printk: [ATTRIBUTE] handle")

\* C18: with callback delivery weakly fair, a session started by
\* on_connected whose requests are all accepted and whose connection does
\* not disconnect reaches Subscribed; and the stage changes only in
\* on_connected, on_attribute_found and on_disconnected.
C18_EventuallySubscribed ==
    /\ (SessionLive /\ AllAccepted /\ reqs # <<>>)
          ~> (Stage = "Subscribed" \/ ~AllAccepted \/ Reported(out, "printk: Disconnected"))
    /\ [][Stage' # Stage => HandlerStep]_vars

\* C19: on_disconnected for a connection other than the tracked one changes
\* nothing: the tracked connection, the stage, the search window and
\* value_handle stay, the reference is not released and scanning is not
\* restarted.
C19_OtherDisconnectIgnored ==
    [][\A c \in Conns :
          (link[c] = "up" /\ link'[c] # "up" /\ c # default_conn) =>
             /\ default_conn' = default_conn
             /\ Stage' = Stage
             /\ discover_params' = discover_params
             /\ subscribe_params' = subscribe_params
             /\ reqs' = reqs
             /\ scanning' = scanning
             /\ link'[c] = "closed"
             /\ ~Reported(out', "bt_conn_put")
             /\ ~Reported(out', "bt_start_scanning")]_vars

\* C19's case: another connection went while the tracked one's session was
\* looking for the characteristic.
C19_Witness ==
    /\ Stage = "DiscoverCharacteristic"
    /\ \E c \in Conns :
         c # default_conn /\ link[c] = "closed" /\ out = <<Call("printk: Disconnected", c)>>
====
